---- MODULE Spec2Model ----
(***************************************************************************)
(* State-machine model of the security-telemetry analysis scripts:         *)
(*   examination/python/analysis_engine.py      (prog = "engine")          *)
(*   automation/python/incident_orchestrator.py (prog = "orchestrator")    *)
(*   automation/python/final_analysis.py        (prog = "final")           *)
(*   hot_detection_engine.py                    (prog = "hot")             *)
(*   risk_analysis.py                           (prog = "risk")            *)
(* Every script is a single-threaded batch run; one action models one      *)
(* function call (or one numbered stage) of its main().                    *)
(***************************************************************************)
EXTENDS Integers, Sequences, FiniteSets, TLC

VARIABLES
    prog,           \* which script is running
    pc,             \* the position of main()
    linux_file,     \* input: the process inventory file
    win_file,       \* input: the service inventory file
    anom_file,      \* input: anomalies.log
    auth_file,      \* input: auth.log
    users_file,     \* input: users.csv
    events_file,    \* input: events.json
    linux_procs,    \* main's local: loaded process names
    windows_svcs,   \* main's local: loaded service rows
    anomalies,      \* main's local: loaded anomaly lines
    ip_counts,      \* main's local: dict ip -> fails, in insertion order
    alerts,         \* engine main's local: the alert list
    incidents,      \* orchestrator main's local: the incident strings
    users,          \* hot/risk main's local: dict username -> {status, fails}
    events,         \* hot/risk main's local: the loaded events
    unknown_users,  \* hot main's local: Counter of users not in users.csv
    counts,         \* main's local: summarize()'s result
    report,         \* output: the text report's lines, or Unwritten
    payload         \* output: the "alerts" list of alerts.json, or Unwritten

vars == <<prog, pc, linux_file, win_file, anom_file, auth_file, users_file,
          events_file, linux_procs, windows_svcs, anomalies, ip_counts, alerts,
          incidents, users, events, unknown_users, counts, report, payload>>

(***************************************************************************)
(* Bounds of the model.                                                    *)
(***************************************************************************)
\* entries per input source in a whole run
MaxRun == 1
\* entries of the inventory handed to one rule
MaxItems == 3
\* lines of the authentication log handed to the per-IP rule
MaxLines == 5
\* events handed to the per-user rule
MaxEvents == 4

SeqUpTo(S, n) == UNION {[1..k -> S] : k \in 0..n}

Unwritten == <<<<"(unwritten)">>>>

(***************************************************************************)
(* Strings.  The scripts' str operations on the finite alphabet of the     *)
(* model: str.lower(), str.strip(), and the code-point order used by       *)
(* sorted().                                                               *)
(***************************************************************************)
Lower(s) ==
    CASE s = "NC" -> "nc"
      [] s = "Nc" -> "nc"
      [] s = "Hydra" -> "hydra"
      [] s = "TELNET" -> "telnet"
      [] s = "Telnet" -> "telnet"
      [] s = "Spooler" -> "spooler"
      [] s = "RemoteRegistry" -> "remoteregistry"
      [] s = "Dhcp" -> "dhcp"
      [] s = "FAILED" -> "failed"
      [] s = "Failed" -> "failed"
      [] s = "FAILED_LOGIN" -> "failed_login"
      [] s = "Disabled" -> "disabled"
      [] s = "Active" -> "active"
      [] OTHER -> s

Strip(s) ==
    CASE s = " nc " -> "nc"
      [] s = " alice " -> "alice"
      [] s = " Telnet " -> "Telnet"
      [] s = " cpu spike " -> "cpu spike"
      [] s = "   " -> ""
      [] OTHER -> s

\* Python compares str by code point: upper-case letters sort before lower-case.
CodePointOrder ==
    <<"", "1.2.3.4", "5.6.7.8", "9.9.9.9", "Dhcp", "Hydra", "NC", "Nc",
      "RemoteRegistry", "Spooler", "TELNET", "Telnet", "alice", "bash", "bob",
      "carol", "hydra", "john", "mallory", "nc", "netcat", "telnet">>

Rank(s) == CHOOSE i \in 1..Len(CodePointOrder) : CodePointOrder[i] = s

StrLess(a, b) == Rank(a) < Rank(b)

\* sorted(set_of_str)
RECURSIVE SortedStrs(_)
SortedStrs(S) ==
    IF S = {} THEN <<>>
    ELSE LET m == CHOOSE x \in S : \A y \in S : x = y \/ StrLess(x, y)
         IN <<m>> \o SortedStrs(S \ {m})

Range(f) == {f[i] : i \in DOMAIN f}

RECURSIVE MapSeq(_, _)
MapSeq(Op(_), s) ==
    IF s = <<>> THEN <<>> ELSE <<Op(Head(s))>> \o MapSeq(Op, Tail(s))

(***************************************************************************)
(* analysis_engine.py                                                      *)
(***************************************************************************)
RISK_PROCESSES == {"nc", "netcat", "hydra", "john"}
RISK_SERVICES == {"Telnet", "RemoteRegistry", "Spooler"}
SEVERITY_ORDER == <<"CRITICAL", "HIGH", "MEDIUM", "LOW", "INFO", "WARNING", "ERROR">>

\* @dataclass Alert(severity, message); the message is kept as its format
\* string and the values formatted into it.
Msg(t, e, s, c) == [text |-> t, entity |-> e, status |-> s, count |-> c]
Alert(sev, msg) == [severity |-> sev, message |-> msg]

\* The result of a call: the value returned, the alert list after the call,
\* and whether the call raised an exception nobody catches.
Ret(v, al) == [raised |-> FALSE, value |-> v, alerts |-> al]
Raise(al) == [raised |-> TRUE, value |-> <<>>, alerts |-> al]

load_linux_processes(file, al) ==
    CASE file.kind = "missing" ->
            Ret(<<>>, Append(al, Alert("ERROR", Msg("(linux) Missing file: {path}", "linux_output.json", "", 0))))
      [] file.kind = "invalid" ->
            Ret(<<>>, Append(al, Alert("ERROR", Msg("(linux) Invalid JSON in {path}: {e}", "linux_output.json", "", 0))))
      [] file.kind = "list" -> Raise(al)          \* data.get: AttributeError, not caught
      [] file.kind = "nokey" -> Ret(<<>>, al)     \* data.get("processes", [])
      [] OTHER ->
            LET dicts == SelectSeq(file.processes, LAMBDA p : p.dict)
                names == MapSeq(LAMBDA p : p.name, dicts)
            IN Ret(SelectSeq(names, LAMBDA n : n # ""), al)

load_windows_services(file, al) ==
    CASE file.kind = "missing" ->
            Ret(<<>>, Append(al, Alert("ERROR", Msg("(windows) Missing file: {path}", "windows_output.csv", "", 0))))
      [] file.kind = "unreadable" ->
            Ret(<<>>, Append(al, Alert("ERROR", Msg("(windows) Failed reading CSV {path}: {e}", "windows_output.csv", "", 0))))
      [] OTHER ->
            LET row(r) == [Name |-> IF file.header = "Name" THEN Strip(r.name) ELSE "",
                           Status |-> IF file.header = "Name" THEN Strip(r.status) ELSE ""]
                rows == MapSeq(row, file.rows)
            IN Ret(SelectSeq(rows, LAMBDA r : r.Name # ""), al)

load_anomalies(file, al) ==
    IF file.kind = "missing"
    THEN Ret(<<>>, Append(al, Alert("WARNING", Msg("(anomalies) Missing file: {path}", "anomalies.log", "", 0))))
    ELSE Ret(MapSeq(Strip, SelectSeq(file.lines, LAMBDA ln : Strip(ln) # "")), al)

\* A log line is the sequence of its whitespace-separated words.
ContainsFailed(low) == \E i \in 1..Len(low) : low[i] = "failed"

\* re.compile(r"(\d{1,3}(?:\.\d{1,3}){3})"): is the word a dotted quad
IsDottedQuad(w) == w \in {"1.2.3.4", "5.6.7.8", "9.9.9.9", "999.999.999.999"}

\* ip_regex.search(line): the first match, or "" for None
SearchIp(line) ==
    IF \E i \in 1..Len(line) : IsDottedQuad(line[i])
    THEN line[CHOOSE i \in 1..Len(line) :
                /\ IsDottedQuad(line[i])
                /\ \A j \in 1..(i - 1) : ~IsDottedQuad(line[j])]
    ELSE ""

\* ip_counts[ip] = ip_counts.get(ip, 0) + 1 on a dict that keeps insertion order
DictIncr(d, k) ==
    IF \E i \in 1..Len(d) : d[i].key = k
    THEN [i \in 1..Len(d) |-> IF d[i].key = k THEN [key |-> k, val |-> d[i].val + 1] ELSE d[i]]
    ELSE Append(d, [key |-> k, val |-> 1])

RECURSIVE CountFailedIps(_, _)
CountFailedIps(lines, d) ==
    IF lines = <<>> THEN d
    ELSE LET line == Head(lines)
             low == MapSeq(Lower, line)
             ip == SearchIp(line)
         IN CountFailedIps(Tail(lines),
                           IF ContainsFailed(low) /\ ip # "" THEN DictIncr(d, ip) ELSE d)

parse_auth_log(file, al) ==
    IF file.kind = "missing"
    THEN Ret(<<>>, Append(al, Alert("INFO", Msg("(auth) auth.log missing (optional): {path}", "auth.log", "", 0))))
    ELSE Ret(CountFailedIps(file.lines, <<>>), al)

RECURSIVE AppendAll(_, _)
AppendAll(al, new) == IF new = <<>> THEN al ELSE AppendAll(Append(al, Head(new)), Tail(new))

classify_linux(processes, al) ==
    LET hits == SelectSeq(processes, LAMBDA p : Lower(p) \in RISK_PROCESSES)
    IN IF hits # <<>>
       THEN AppendAll(al, MapSeq(LAMBDA p : Alert("CRITICAL", Msg("(linux) Risk process detected: {p}", p, "", 0)), hits))
       ELSE Append(al, Alert("INFO", Msg("(linux) OK: No known Linux risk processes detected.", "", "", 0)))

classify_windows(services, al) ==
    LET hits == SelectSeq(services, LAMBDA s : s.Name \in RISK_SERVICES)
    IN IF hits # <<>>
       THEN AppendAll(al, MapSeq(LAMBDA s : Alert("HIGH", Msg("(windows) Risky service detected: {Name} (Status={Status})", s.Name, s.Status, 0)), hits))
       ELSE Append(al, Alert("INFO", Msg("(windows) OK: No risky Windows services detected (Telnet/RemoteRegistry/Spooler).", "", "", 0)))

\* sorted(items, key=lambda x: x[1], reverse=True): stable, so items of equal
\* count keep their dict (insertion) order.
RECURSIVE InsertByCountDesc(_, _)
InsertByCountDesc(sorted, item) ==
    IF sorted = <<>> THEN <<item>>
    ELSE IF Head(sorted).val >= item.val
         THEN <<Head(sorted)>> \o InsertByCountDesc(Tail(sorted), item)
         ELSE <<item>> \o sorted

RECURSIVE SortByCountDesc(_)
SortByCountDesc(d) ==
    IF d = <<>> THEN <<>>
    ELSE InsertByCountDesc(SortByCountDesc(SubSeq(d, 1, Len(d) - 1)), d[Len(d)])

\* mutant: the brute-force threshold as "count > 5"
AuthAlert_above_five(item) ==
    IF item.val > 5
    THEN Alert("CRITICAL", Msg("(auth) Brute-force indicator from IP {ip} ({count} fails)", item.key, "", item.val))
    ELSE Alert("MEDIUM", Msg("(auth) Suspicious failed logins from IP {ip} ({count} fails)", item.key, "", item.val))

AuthAlert(item) ==
    IF item.val >= 5
    THEN Alert("CRITICAL", Msg("(auth) Brute-force indicator from IP {ip} ({count} fails)", item.key, "", item.val))
    ELSE Alert("MEDIUM", Msg("(auth) Suspicious failed logins from IP {ip} ({count} fails)", item.key, "", item.val))

classify_auth(d, al) ==
    IF d = <<>>
    THEN Append(al, Alert("INFO", Msg("(auth) No failed-login IP indicators found (or auth.log missing).", "", "", 0)))
    ELSE AppendAll(al, MapSeq(AuthAlert, SortByCountDesc(d)))

include_anomalies(anoms, al) ==
    AppendAll(al, MapSeq(LAMBDA a : Alert("INFO", Msg("(anomalies) {a}", a, "", 0)), anoms))

CountSeverity(al, sev) == Cardinality({i \in 1..Len(al) : al[i].severity = sev})

\* counts of the severities seen, then setdefault(sev, 0) for the seven known
summarize(al) ==
    [sev \in Range(SEVERITY_ORDER) \cup {al[i].severity : i \in 1..Len(al)} |->
        CountSeverity(al, sev)]

ReportSummaryKeys == <<"CRITICAL", "HIGH", "MEDIUM", "INFO", "WARNING", "ERROR">>

\* summary_counts.get(sev, 0)
DictGet(d, k, default) == IF k \in DOMAIN d THEN d[k] ELSE default

\* The report's lines; each line is the tuple of the pieces formatted into it.
write_final_report(al, summary_counts) ==
    <<<<"=== FINAL SECURITY REPORT ===">>, <<"Generated: {now_ts}">>, <<"">>,
      <<"=== SUMMARY ===">>>>
    \o MapSeq(LAMBDA sev : <<sev, ": ", DictGet(summary_counts, sev, 0)>>, ReportSummaryKeys)
    \o <<<<"">>, <<"=== ALERTS ===">>>>
    \o MapSeq(LAMBDA a : <<a.severity, ": ", a.message>>, al)
    \o <<<<"">>, <<"=== FILES USED ===">>,
         <<"linux_output.json", ": ", "{linux_path}">>,
         <<"windows_output.csv", ": ", "{win_path}">>,
         <<"anomalies.log", ": ", "{anom_path}">>,
         <<"auth.log", ": ", "{auth_path}">>>>

\* mutant: the payload's severity taken from a vocabulary without ERROR
write_alerts_json_no_error(al) ==
    MapSeq(LAMBDA a : [severity |-> IF a.severity = "ERROR" THEN "WARNING" ELSE a.severity,
                       message |-> a.message], al)

write_alerts_json(al) ==
    MapSeq(LAMBDA a : [severity |-> a.severity, message |-> a.message], al)


(***************************************************************************)
(* analysis_engine.main(): one action per call, in the order of the calls. *)
(* An exception no handler catches ends the run (pc = "aborted") before    *)
(* anything is written.                                                    *)
(***************************************************************************)
EngineLocals == <<linux_procs, windows_svcs, anomalies, ip_counts>>
Inputs == <<prog, linux_file, win_file, anom_file, auth_file, users_file, events_file>>
NotEngine == <<incidents, users, events, unknown_users>>

Engine_load_linux ==
    /\ prog = "engine" /\ pc = "load_linux"
    /\ LET r == load_linux_processes(linux_file, alerts)
       IN IF r.raised
          THEN pc' = "aborted" /\ UNCHANGED <<linux_procs, alerts>>
          ELSE pc' = "load_windows" /\ linux_procs' = r.value /\ alerts' = r.alerts
    /\ UNCHANGED <<Inputs, windows_svcs, anomalies, ip_counts, NotEngine, counts, report, payload>>

Engine_load_windows ==
    /\ prog = "engine" /\ pc = "load_windows"
    /\ LET r == load_windows_services(win_file, alerts)
       IN pc' = "load_anomalies" /\ windows_svcs' = r.value /\ alerts' = r.alerts
    /\ UNCHANGED <<Inputs, linux_procs, anomalies, ip_counts, NotEngine, counts, report, payload>>

Engine_load_anomalies ==
    /\ prog = "engine" /\ pc = "load_anomalies"
    /\ LET r == load_anomalies(anom_file, alerts)
       IN pc' = "parse_auth" /\ anomalies' = r.value /\ alerts' = r.alerts
    /\ UNCHANGED <<Inputs, linux_procs, windows_svcs, ip_counts, NotEngine, counts, report, payload>>

Engine_parse_auth_log ==
    /\ prog = "engine" /\ pc = "parse_auth"
    /\ LET r == parse_auth_log(auth_file, alerts)
       IN pc' = "classify_linux" /\ ip_counts' = r.value /\ alerts' = r.alerts
    /\ UNCHANGED <<Inputs, linux_procs, windows_svcs, anomalies, NotEngine, counts, report, payload>>

Engine_classify_linux ==
    /\ prog = "engine" /\ pc = "classify_linux"
    /\ alerts' = classify_linux(linux_procs, alerts)
    /\ pc' = "classify_windows"
    /\ UNCHANGED <<Inputs, EngineLocals, NotEngine, counts, report, payload>>

Engine_classify_windows ==
    /\ prog = "engine" /\ pc = "classify_windows"
    /\ alerts' = classify_windows(windows_svcs, alerts)
    /\ pc' = "classify_auth"
    /\ UNCHANGED <<Inputs, EngineLocals, NotEngine, counts, report, payload>>

Engine_classify_auth ==
    /\ prog = "engine" /\ pc = "classify_auth"
    /\ alerts' = classify_auth(ip_counts, alerts)
    /\ pc' = "include_anomalies"
    /\ UNCHANGED <<Inputs, EngineLocals, NotEngine, counts, report, payload>>

Engine_include_anomalies ==
    /\ prog = "engine" /\ pc = "include_anomalies"
    /\ alerts' = include_anomalies(anomalies, alerts)
    /\ pc' = "summarize"
    /\ UNCHANGED <<Inputs, EngineLocals, NotEngine, counts, report, payload>>

Engine_summarize ==
    /\ prog = "engine" /\ pc = "summarize"
    /\ counts' = summarize(alerts)
    /\ pc' = "write_final_report"
    /\ UNCHANGED <<Inputs, EngineLocals, alerts, NotEngine, report, payload>>

Engine_write_final_report ==
    /\ prog = "engine" /\ pc = "write_final_report"
    /\ report' = write_final_report(alerts, counts)
    /\ pc' = "write_alerts_json"
    /\ UNCHANGED <<Inputs, EngineLocals, alerts, NotEngine, counts, payload>>

Engine_write_alerts_json ==
    /\ prog = "engine" /\ pc = "write_alerts_json"
    /\ payload' = write_alerts_json(alerts)
    /\ pc' = "done"
    /\ UNCHANGED <<Inputs, EngineLocals, alerts, NotEngine, counts, report>>

EngineNext ==
    \/ Engine_load_linux
    \/ Engine_load_windows
    \/ Engine_load_anomalies
    \/ Engine_parse_auth_log
    \/ Engine_classify_linux
    \/ Engine_classify_windows
    \/ Engine_classify_auth
    \/ Engine_include_anomalies
    \/ Engine_summarize
    \/ Engine_write_final_report
    \/ Engine_write_alerts_json

(***************************************************************************)
(* incident_orchestrator.py.  An incident is a str; it is kept as the      *)
(* tuple <<leading word, rest of the format string, entity, numbers>>.     *)
(***************************************************************************)
Inc(head, text, entity, nums) == <<head, text, entity, nums>>

\* anomalies[-200:]
AnomalyCap == 200
LastN(s, n) == IF Len(s) <= n THEN s ELSE SubSeq(s, Len(s) - n + 1, Len(s))

\* stage 1: read_json and the loop filling linux_procs.  A missing file, a
\* document that is no object and an object without "processes" give no names.
orch_linux_procs(file) ==
    IF file.kind = "object"
    THEN MapSeq(LAMBDA p : Strip(p.name), file.processes)
    ELSE <<>>

orch_linux_hits(procs) == SortedStrs({p \in Range(procs) : p \in RISK_PROCESSES})

read_csv_services(file) ==
    IF file.kind = "csv" /\ file.header \in {"Name", "name"}
    THEN SelectSeq(MapSeq(LAMBDA r : Strip(r.name), file.rows), LAMBDA n : n # "")
    ELSE <<>>

orch_win_hits(services) == SortedStrs({x \in Range(services) : x \in RISK_SERVICES})

read_lines(file) == IF file.kind = "missing" THEN <<>> ELSE file.lines

orch_anomaly_incidents(anoms) ==
    MapSeq(LAMBDA a : Inc("INFO (anomalies.log)", ": {a}", Strip(a), <<>>),
           SelectSeq(LastN(anoms, AnomalyCap), LAMBDA a : Strip(a) # ""))

\* LOG_PATTERNS[key].search(line), re.IGNORECASE
PatternCount(lines, key) ==
    Cardinality({i \in 1..Len(lines) : \E j \in 1..Len(lines[i]) : Lower(lines[i][j]) = key})

orch_ip_fail_count(lines) == CountFailedIps(lines, <<>>)

OrchIpIncident(item) ==
    IF item.val >= 5
    THEN <<Inc("CRITICAL", ": Brute-force-indikator fran IP {ip} ({count} fails)", item.key, <<item.val>>)>>
    ELSE IF item.val >= 1
         THEN <<Inc("MEDIUM", ": Misstankta felaktiga inloggningar fran {ip} ({count} fails)", item.key, <<item.val>>)>>
         ELSE <<>>

RECURSIVE FlatMap(_, _)
FlatMap(Op(_), s) == IF s = <<>> THEN <<>> ELSE Op(Head(s)) \o FlatMap(Op, Tail(s))

orch_auth_incidents(lines) ==
    LET f == PatternCount(lines, "failed")
        e == PatternCount(lines, "error")
        u == PatternCount(lines, "unauthorized")
    IN FlatMap(OrchIpIncident, SortByCountDesc(orch_ip_fail_count(lines)))
       \o (IF f > 0 \/ e > 0 \/ u > 0
           THEN <<Inc("INFO", ": auth.log summering - failed={f}, error={e}, unauthorized={u}", "", <<f, e, u>>)>>
           ELSE <<>>)

Upper(s) == IF s = "INFO (anomalies.log)" THEN "INFO (ANOMALIES.LOG)" ELSE s
StartsWith(s, prefix) == s = prefix \/ (s = "INFO (ANOMALIES.LOG)" /\ prefix = "INFO")

classify_severity(msg) ==
    LET m == Upper(msg[1])
    IN IF StartsWith(m, "CRITICAL") THEN "CRITICAL"
       ELSE IF StartsWith(m, "HIGH") THEN "HIGH"
       ELSE IF StartsWith(m, "MEDIUM") THEN "MEDIUM"
       ELSE IF StartsWith(m, "WARNING") THEN "WARNING"
       ELSE "INFO"

orch_incidents(lf, wf, af, auf) ==
    MapSeq(LAMBDA p : Inc("CRITICAL", ": Riskprocess upptackt - {p}", p, <<>>),
           orch_linux_hits(orch_linux_procs(lf)))
    \o MapSeq(LAMBDA x : Inc("HIGH", ": Riskabel Windows-tjanst upptackt - {s}", x, <<>>),
              orch_win_hits(read_csv_services(wf)))
    \o orch_anomaly_incidents(read_lines(af))
    \o orch_auth_incidents(read_lines(auf))

orch_alerts_payload(incs) ==
    MapSeq(LAMBDA i : [severity |-> classify_severity(i), message |-> i], incs)

orch_incident_txt(incs) ==
    <<Inc("=== INCIDENT SUMMARY ===", "", "", <<>>)>>
    \o (IF incs = <<>> THEN <<Inc("No incidents detected.", "", "", <<>>)>> ELSE incs)
    \o <<Inc("", "", "", <<>>), Inc("=== FILES USED ===", "", "", <<>>),
         Inc("linux_processes", ": {path}", "", <<>>), Inc("windows_services", ": {path}", "", <<>>),
         Inc("anomalies_log", ": {path}", "", <<>>), Inc("auth_log", ": {path}", "", <<>>)>>

\* main(): json.load raises on invalid JSON and csv.DictReader on an
\* unreadable CSV; nothing catches either.
Orchestrator_main ==
    /\ prog = "orchestrator" /\ pc = "main"
    /\ IF linux_file.kind = "invalid" \/ win_file.kind = "unreadable"
       THEN pc' = "aborted" /\ UNCHANGED <<incidents, payload, report>>
       ELSE /\ incidents' = orch_incidents(linux_file, win_file, anom_file, auth_file)
            /\ payload' = orch_alerts_payload(incidents')
            /\ report' = orch_incident_txt(incidents')
            /\ pc' = "done"
    /\ UNCHANGED <<Inputs, EngineLocals, alerts, users, events, unknown_users, counts>>

(***************************************************************************)
(* final_analysis.py.  A report line is kept as                            *)
(* <<leading word, rest of the format string, entity, status>>.            *)
(***************************************************************************)
FLine(head, text, entity, status) == <<head, text, entity, status>>

\* read_linux_processes raises when the document is no object (data.get) or
\* an entry is no object (p.get)
final_linux_raises(file) ==
    \/ file.kind \in {"invalid", "list"}
    \/ file.kind = "object" /\ \E i \in 1..Len(file.processes) : ~file.processes[i].dict

read_linux_processes(file) ==
    IF file.kind = "object"
    THEN SelectSeq(MapSeq(LAMBDA p : Strip(p.name), file.processes), LAMBDA n : n # "")
    ELSE <<>>

final_linux_lines(linux_processes) ==
    LET hits == SortedStrs({p \in Range(linux_processes) : Lower(p) \in RISK_PROCESSES})
    IN IF hits # <<>>
       THEN MapSeq(LAMBDA p : FLine("CRITICAL", ": Linux riskprocess upptackt - {p}", p, ""), hits)
       ELSE <<FLine("OK", ": Inga kanda Linux-riskprocesser upptackta.", "", "")>>

\* svc.get("Name") or svc.get("name"), svc.get("Status") or svc.get("status")
final_found_services(file) ==
    IF file.header \in {"Name", "name"}
    THEN SelectSeq(MapSeq(LAMBDA r : [name |-> Strip(r.name), status |-> Strip(r.status)], file.rows),
                   LAMBDA r : r.name \in RISK_SERVICES)
    ELSE <<>>

final_service_lines(found_services) ==
    IF found_services # <<>>
    THEN MapSeq(LAMBDA r : FLine("WARNING", ": Riskabel Windows-tjanst - {name} (Status={status})", r.name, r.status),
                found_services)
    ELSE <<FLine("OK", ": Inga riskabla Windows-tjanster i listan (Telnet/RemoteRegistry/Spooler).", "", "")>>

final_report(lf, wf, af) ==
    final_linux_lines(read_linux_processes(lf))
    \o final_service_lines(final_found_services(wf))
    \o <<FLine("", "", "", ""), FLine("=== ANOMALIES LOG ===", "", "", "")>>
    \o (IF af.lines # <<>>
        THEN MapSeq(LAMBDA a : FLine(a, "", "", ""), af.lines)
        ELSE <<FLine("(tom)", "", "", "")>>)

\* main(): returns early, writing nothing, when one of its three files is
\* missing; an exception of a reader ends the run.
Final_main ==
    /\ prog = "final" /\ pc = "main"
    /\ IF "missing" \in {linux_file.kind, win_file.kind, anom_file.kind}
       THEN pc' = "missing_files" /\ UNCHANGED report
       ELSE IF final_linux_raises(linux_file) \/ win_file.kind = "unreadable"
            THEN pc' = "aborted" /\ UNCHANGED report
            ELSE pc' = "done" /\ report' = final_report(linux_file, win_file, anom_file)
    /\ UNCHANGED <<Inputs, EngineLocals, alerts, incidents, users, events, unknown_users,
                   counts, payload>>

(***************************************************************************)
(* hot_detection_engine.py.  The users dict is the sequence of its items   *)
(* in insertion order; None is the string NoneValue.                       *)
(***************************************************************************)
NoneValue == "<None>"
\* (x or "")
OrEmpty(x) == IF x = NoneValue THEN "" ELSE x

HasKey(d, k) == \E i \in 1..Len(d) : d[i].key = k
DictLookup(d, k) == d[CHOOSE i \in 1..Len(d) : d[i].key = k]
Keys(d) == {d[i].key : i \in 1..Len(d)}

\* users[username] = {"status": status, "fails": 0}
SetUser(d, k, status) ==
    LET item == [key |-> k, status |-> status, fails |-> 0]
    IN IF HasKey(d, k)
       THEN [i \in 1..Len(d) |-> IF d[i].key = k THEN item ELSE d[i]]
       ELSE Append(d, item)

UsersFileOk(file) == file.kind = "csv" /\ file.header = "username,status"

RECURSIVE HotUserRows(_, _)
HotUserRows(rows, d) ==
    IF rows = <<>> THEN d
    ELSE LET username == Strip(OrEmpty(Head(rows).username))
             status == Lower(Strip(OrEmpty(Head(rows).status)))
         IN HotUserRows(Tail(rows),
                IF username = "" THEN d
                ELSE SetUser(d, username, IF status \in {"active", "disabled"} THEN status ELSE "active"))

hot_load_users(file) == HotUserRows(file.rows, <<>>)

\* load_events raises for a missing file, invalid JSON, a document that is no
\* object, or "events" that is no list
EventsFileOk(file) == file.kind = "events"

\* users[user]["fails"] += 1
IncrFails(d, k) ==
    [i \in 1..Len(d) |-> IF d[i].key = k THEN [d[i] EXCEPT !.fails = @ + 1] ELSE d[i]]

RECURSIVE apply_event_fails(_, _, _)
apply_event_fails(us, evs, unknown) ==
    IF evs = <<>> THEN [users |-> us, unknown_users |-> unknown]
    ELSE LET user == Strip(OrEmpty(Head(evs).user))
             ev == Lower(Strip(OrEmpty(Head(evs).event)))
         IN IF ev # "failed_login" \/ user = ""
            THEN apply_event_fails(us, Tail(evs), unknown)
            ELSE IF HasKey(us, user)
                 THEN apply_event_fails(IncrFails(us, user), Tail(evs), unknown)
                 ELSE apply_event_fails(us, Tail(evs), DictIncr(unknown, user))

parse_auth_log_ips(file) == CountFailedIps(file.lines, <<>>)

\* mutant: the disabled test without "and fails >= 1"
classify_user_disabled_always(status, fails) ==
    IF status = "disabled" THEN "CRITICAL"
    ELSE IF fails >= 3 THEN "HIGH RISK"
    ELSE IF fails >= 1 THEN "MEDIUM RISK"
    ELSE "LOW RISK"

classify_user(status, fails) ==
    IF status = "disabled" /\ fails >= 1 THEN "CRITICAL"
    ELSE IF fails >= 3 THEN "HIGH RISK"
    ELSE IF fails >= 1 THEN "MEDIUM RISK"
    ELSE "LOW RISK"

classify_ip(fails) ==
    IF fails >= 5 THEN "BRUTE FORCE SUSPECT"
    ELSE IF fails >= 1 THEN "SUSPICIOUS"
    ELSE "LOW"

\* Counter.most_common(): sorted by count, descending, stable
most_common(c) == SortByCountDesc(c)

HotUserLine(us, username) ==
    LET info == DictLookup(us, username)
    IN <<username, ": ", classify_user(info.status, info.fails), info.fails, info.status>>

CountRisk(us, k) ==
    Cardinality({i \in 1..Len(us) : classify_user(us[i].status, us[i].fails) = k})

hot_write_report(us, ipc, unknown) ==
    <<<<"Report generated: {now_ts}">>, <<"=== USER RISK REPORT ===">>>>
    \o MapSeq(LAMBDA u : HotUserLine(us, u), SortedStrs(Keys(us)))
    \o <<<<"">>, <<"=== IP RISK REPORT ===">>>>
    \o (IF ipc # <<>>
        THEN MapSeq(LAMBDA it : <<it.key, ": ", classify_ip(it.val), it.val>>, most_common(ipc))
        ELSE <<<<"No failed-login IPs found in auth.log">>>>)
    \o (IF unknown # <<>>
        THEN <<<<"">>, <<"=== UNKNOWN USERS (in events.json but not in users.csv) ===">>>>
             \o MapSeq(LAMBDA it : <<it.key, ": failed_login=", it.val>>, most_common(unknown))
        ELSE <<>>)
    \o <<<<"">>, <<"=== SUMMARY ===">>,
         <<"Total users in CSV: ", Len(us)>>,
         <<"Total IPs with failed attempts: ", Len(ipc)>>,
         <<"User risk counts:">>>>
    \o MapSeq(LAMBDA k : <<"  ", k, CountRisk(us, k)>>,
              <<"CRITICAL", "HIGH RISK", "MEDIUM RISK", "LOW RISK">>)

\* main(): every exception is caught, printed, and the run returns 1 without
\* a report (pc = "failed").
HotFrame == <<Inputs, linux_procs, windows_svcs, anomalies, alerts, incidents, counts, payload>>

Hot_load_users ==
    /\ prog = "hot" /\ pc = "load_users"
    /\ IF UsersFileOk(users_file)
       THEN users' = hot_load_users(users_file) /\ pc' = "load_events"
       ELSE pc' = "failed" /\ UNCHANGED users
    /\ UNCHANGED <<HotFrame, events, unknown_users, ip_counts, report>>

Hot_load_events ==
    /\ prog = "hot" /\ pc = "load_events"
    /\ IF EventsFileOk(events_file)
       THEN events' = events_file.events /\ pc' = "apply_event_fails"
       ELSE pc' = "failed" /\ UNCHANGED events
    /\ UNCHANGED <<HotFrame, users, unknown_users, ip_counts, report>>

Hot_apply_event_fails ==
    /\ prog = "hot" /\ pc = "apply_event_fails"
    /\ LET r == apply_event_fails(users, events, <<>>)
       IN users' = r.users /\ unknown_users' = r.unknown_users
    /\ pc' = "parse_auth_log_ips"
    /\ UNCHANGED <<HotFrame, events, ip_counts, report>>

Hot_parse_auth_log_ips ==
    /\ prog = "hot" /\ pc = "parse_auth_log_ips"
    /\ IF auth_file.kind = "missing"
       THEN pc' = "failed" /\ UNCHANGED ip_counts
       ELSE ip_counts' = parse_auth_log_ips(auth_file) /\ pc' = "write_report"
    /\ UNCHANGED <<HotFrame, users, events, unknown_users, report>>

Hot_write_report ==
    /\ prog = "hot" /\ pc = "write_report"
    /\ report' = hot_write_report(users, ip_counts, unknown_users)
    /\ pc' = "done"
    /\ UNCHANGED <<HotFrame, users, events, unknown_users, ip_counts>>

HotNext ==
    \/ Hot_load_users
    \/ Hot_load_events
    \/ Hot_apply_event_fails
    \/ Hot_parse_auth_log_ips
    \/ Hot_write_report

(***************************************************************************)
(* risk_analysis.py                                                        *)
(***************************************************************************)
RECURSIVE RiskUserRows(_, _)
RiskUserRows(rows, d) ==
    IF rows = <<>> THEN d
    ELSE LET username == Strip(OrEmpty(Head(rows).username))
             status == Lower(Strip(OrEmpty(Head(rows).status)))
         IN RiskUserRows(Tail(rows), IF username = "" THEN d ELSE SetUser(d, username, status))

risk_load_users(file) == RiskUserRows(file.rows, <<>>)

RECURSIVE count_failed_logins(_, _)
count_failed_logins(evs, us) ==
    IF evs = <<>> THEN us
    ELSE LET user == Head(evs).user
             event_type == Head(evs).event
         IN count_failed_logins(Tail(evs),
                IF event_type = "failed_login" /\ HasKey(us, user) THEN IncrFails(us, user) ELSE us)

classify_risk(status, fails) ==
    IF status = "disabled" /\ fails > 0 THEN "CRITICAL"
    ELSE IF fails >= 3 THEN "HIGH"
    ELSE IF fails >= 1 THEN "MEDIUM"
    ELSE "LOW"

RiskUserLine(us, username) ==
    LET info == DictLookup(us, username)
    IN <<username, ": ", classify_risk(info.status, info.fails), info.fails, info.status>>

\* mutant: the users in dict order, without sorted()
risk_write_report_unsorted(us) == MapSeq(LAMBDA u : RiskUserLine(us, u.key), us)

risk_write_report(us) == MapSeq(LAMBDA u : RiskUserLine(us, u), SortedStrs(Keys(us)))

\* main(): no exception is caught.
Risk_load_users ==
    /\ prog = "risk" /\ pc = "load_users"
    /\ IF UsersFileOk(users_file)
       THEN users' = risk_load_users(users_file) /\ pc' = "load_events"
       ELSE pc' = "aborted" /\ UNCHANGED users
    /\ UNCHANGED <<HotFrame, events, unknown_users, ip_counts, report>>

Risk_load_events ==
    /\ prog = "risk" /\ pc = "load_events"
    /\ IF EventsFileOk(events_file)
       THEN events' = events_file.events /\ pc' = "count_failed_logins"
       ELSE pc' = "aborted" /\ UNCHANGED events
    /\ UNCHANGED <<HotFrame, users, unknown_users, ip_counts, report>>

Risk_count_failed_logins ==
    /\ prog = "risk" /\ pc = "count_failed_logins"
    /\ users' = count_failed_logins(events, users)
    /\ pc' = "write_report"
    /\ UNCHANGED <<HotFrame, events, unknown_users, ip_counts, report>>

Risk_write_report ==
    /\ prog = "risk" /\ pc = "write_report"
    /\ report' = risk_write_report(users)
    /\ pc' = "done"
    /\ UNCHANGED <<HotFrame, users, events, unknown_users, ip_counts>>

RiskNext ==
    \/ Risk_load_users
    \/ Risk_load_events
    \/ Risk_count_failed_logins
    \/ Risk_write_report

(***************************************************************************)
(* The inputs.  A scenario starts one script on its inputs.  Whole-run     *)
(* scenarios combine every kind of every source with at most MaxRun        *)
(* entries each; rule scenarios hand one source a longer inventory and     *)
(* leave the other sources present and empty.                              *)
(***************************************************************************)
ProcEntry(n, d) == [name |-> n, dict |-> d]
LinuxFile(k, ps) == [kind |-> k, processes |-> ps]
WinFile(k, h, rs) == [kind |-> k, header |-> h, rows |-> rs]
LinesFile(k, ls) == [kind |-> k, lines |-> ls]
UsersFile(k, h, rs) == [kind |-> k, header |-> h, rows |-> rs]
EventsFile(k, es) == [kind |-> k, events |-> es]
SvcRow(n, st) == [name |-> n, status |-> st]
UserRow(u, st) == [username |-> u, status |-> st]
Event(u, e) == [user |-> u, event |-> e]

EmptyLinux == LinuxFile("object", <<>>)
EmptyWin == WinFile("csv", "Name", <<>>)
EmptyLines == LinesFile("text", <<>>)
NoUsers == UsersFile("missing", "", <<>>)
NoEvents == EventsFile("missing", <<>>)

Scenario(p, lf, wf, af, auf, uf, ef) ==
    /\ prog = p
    /\ linux_file = lf
    /\ win_file = wf
    /\ anom_file = af
    /\ auth_file = auf
    /\ users_file = uf
    /\ events_file = ef

FilePrograms == {"engine", "orchestrator", "final"}
UserPrograms == {"hot", "risk"}

RunProcEntries ==
    {ProcEntry("nc", TRUE), ProcEntry("bash", TRUE), ProcEntry("", TRUE), ProcEntry("nc", FALSE)}

RunLinuxFiles ==
    {LinuxFile(k, <<>>) : k \in {"missing", "invalid", "list", "nokey"}}
    \cup {LinuxFile("object", ps) : ps \in SeqUpTo(RunProcEntries, MaxRun)}

RunRows == {SvcRow("Telnet", "Running"), SvcRow("Dhcp", "Running")}

RunWinFiles ==
    {WinFile("missing", "", <<>>), WinFile("unreadable", "", <<>>),
     WinFile("csv", "name", <<SvcRow("Telnet", "Running")>>)}
    \cup {WinFile("csv", "Name", rs) : rs \in SeqUpTo(RunRows, MaxRun)}

RunAnomFiles ==
    {LinesFile("missing", <<>>)}
    \cup {LinesFile("text", ls) : ls \in SeqUpTo({" cpu spike ", "   "}, MaxRun)}

RunAuthLines == {<<"Failed", "1.2.3.4">>, <<"accepted", "5.6.7.8">>}

RunAuthFiles ==
    {LinesFile("missing", <<>>)}
    \cup {LinesFile("text", ls) : ls \in SeqUpTo(RunAuthLines, MaxRun)}

RunScenarios ==
    \E p \in FilePrograms, lf \in RunLinuxFiles, wf \in RunWinFiles,
       af \in RunAnomFiles, auf \in RunAuthFiles :
        Scenario(p, lf, wf, af, auf, NoUsers, NoEvents)

\* the process rule
RuleProcEntries == {ProcEntry(n, TRUE) : n \in {"nc", "NC", "hydra", "bash"}}

ProcessScenarios ==
    \E p \in FilePrograms, ps \in SeqUpTo(RuleProcEntries, MaxItems) :
        Scenario(p, LinuxFile("object", ps), EmptyWin, EmptyLines, EmptyLines, NoUsers, NoEvents)

\* the service rule
RuleRows ==
    {SvcRow("Telnet", "Running"), SvcRow("Telnet", "Stopped"), SvcRow("Spooler", "Running"),
     SvcRow("telnet", "Running"), SvcRow("Dhcp", "Running")}

ServiceScenarios ==
    \E p \in FilePrograms, rs \in SeqUpTo(RuleRows, MaxItems) :
        Scenario(p, EmptyLinux, WinFile("csv", "Name", rs), EmptyLines, EmptyLines, NoUsers, NoEvents)

\* the per-IP rule
RuleAuthLines ==
    {<<"Failed", "login", "1.2.3.4">>, <<"failed", "5.6.7.8", "1.2.3.4">>,
     <<"accepted", "1.2.3.4">>, <<"FAILED", "x.x.x.x">>}

SomeUsers == UsersFile("csv", "username,status", <<UserRow("bob", "disabled"), UserRow("alice", "active")>>)

AuthScenarios ==
    \E p \in {"engine", "orchestrator", "hot"}, ls \in SeqUpTo(RuleAuthLines, MaxLines) :
        Scenario(p, EmptyLinux, EmptyWin, EmptyLines, LinesFile("text", ls),
                 IF p = "hot" THEN SomeUsers ELSE NoUsers,
                 IF p = "hot" THEN EventsFile("events", <<>>) ELSE NoEvents)

\* the per-user rule, whole runs
RunUserRows ==
    {UserRow("alice", "active"), UserRow(" alice ", "Disabled"), UserRow("bob", "locked"),
     UserRow("", "active")}

RunUsersFiles ==
    {UsersFile("missing", "", <<>>), UsersFile("csv", "name,state", <<>>)}
    \cup {UsersFile("csv", "username,status", rs) : rs \in SeqUpTo(RunUserRows, MaxRun)}

RuleEvents ==
    {Event("alice", "failed_login"), Event("bob", "failed_login"), Event("mallory", "failed_login"),
     Event("", "failed_login"), Event("alice", "logout")}

RunEvents ==
    RuleEvents \cup {Event(" alice ", "FAILED_LOGIN"), Event(NoneValue, "failed_login"),
                     Event("mallory", NoneValue)}

RunEventsFiles ==
    {EventsFile(k, <<>>) : k \in {"missing", "invalid", "nolist"}}
    \cup {EventsFile("events", es) : es \in SeqUpTo(RunEvents, MaxRun)}

UserRunScenarios ==
    \E p \in UserPrograms, uf \in RunUsersFiles, ef \in RunEventsFiles,
       auf \in {LinesFile("missing", <<>>), LinesFile("text", <<<<"Failed", "1.2.3.4">>>>)} :
        Scenario(p, EmptyLinux, EmptyWin, EmptyLines, auf, uf, ef)

\* the per-user rule
RuleUsersFiles ==
    {SomeUsers,
     UsersFile("csv", "username,status", <<UserRow("alice", "Disabled"), UserRow("carol", "locked")>>),
     UsersFile("csv", "username,status",
               <<UserRow("bob", "active"), UserRow("alice", "active"), UserRow(" alice ", "Disabled")>>)}

EventScenarios ==
    \E p \in UserPrograms, uf \in RuleUsersFiles, es \in SeqUpTo(RuleEvents, MaxEvents) :
        Scenario(p, EmptyLinux, EmptyWin, EmptyLines, EmptyLines, uf, EventsFile("events", es))

Scenarios ==
    \/ RunScenarios
    \/ ProcessScenarios
    \/ ServiceScenarios
    \/ AuthScenarios
    \/ UserRunScenarios
    \/ EventScenarios

EntryPc(p) ==
    CASE p = "engine" -> "load_linux"
      [] p \in UserPrograms -> "load_users"
      [] OTHER -> "main"

Init ==
    /\ Scenarios
    /\ pc = EntryPc(prog)
    /\ linux_procs = <<>>
    /\ windows_svcs = <<>>
    /\ anomalies = <<>>
    /\ ip_counts = <<>>
    /\ alerts = <<>>
    /\ incidents = <<>>
    /\ users = <<>>
    /\ events = <<>>
    /\ unknown_users = <<>>
    /\ counts = <<>>
    /\ report = Unwritten
    /\ payload = Unwritten

Next ==
    \/ EngineNext
    \/ Orchestrator_main
    \/ Final_main
    \/ HotNext
    \/ RiskNext

Spec == Init /\ [][Next]_vars

(***************************************************************************)
(* Reading a written report back: the lines that follow a header line, up  *)
(* to the next blank line.                                                 *)
(***************************************************************************)
HasLine(rep, header) == \E i \in 1..Len(rep) : rep[i][1] = header

SectionAfter(rep, header) ==
    IF ~HasLine(rep, header) THEN <<>>
    ELSE LET h == CHOOSE i \in 1..Len(rep) :
                    rep[i][1] = header /\ \A j \in 1..(i - 1) : rep[j][1] # header
             stops == {j \in (h + 1)..Len(rep) : rep[j][1] = ""}
             e == IF stops = {} THEN Len(rep) + 1
                  ELSE CHOOSE j \in stops : \A k \in stops : j <= k
         IN SubSeq(rep, h + 1, e - 1)

HotDone == prog = "hot" /\ pc = "done"
RiskDone == prog = "risk" /\ pc = "done"
HotUserLines == SectionAfter(report, "=== USER RISK REPORT ===")

(***************************************************************************)
(* C1                                                                      *)
(***************************************************************************)
\* The tier the per-user rule is said to give.
UserRule(status, fails) ==
    IF status = "disabled" /\ fails >= 1 THEN "CRITICAL"
    ELSE IF fails >= 3 THEN "HIGH"
    ELSE IF fails >= 1 THEN "MEDIUM"
    ELSE "LOW"

\* hot_detection_engine prints the tiers HIGH, MEDIUM and LOW as "HIGH RISK",
\* "MEDIUM RISK" and "LOW RISK".
HotLabel(tier) ==
    CASE tier = "HIGH" -> "HIGH RISK"
      [] tier = "MEDIUM" -> "MEDIUM RISK"
      [] tier = "LOW" -> "LOW RISK"
      [] OTHER -> tier

\* C1: for every account status and fail count the scripts reach, classify_risk
\* returns CRITICAL for a disabled account with at least one failure, otherwise
\* HIGH from 3 failures, otherwise MEDIUM from 1 failure, otherwise LOW, and
\* classify_user returns the same tier; the written user lines carry that tier.
C1_UserClassification ==
    /\ \A i \in 1..Len(users) :
        /\ classify_risk(users[i].status, users[i].fails) = UserRule(users[i].status, users[i].fails)
        /\ classify_user(users[i].status, users[i].fails)
             = HotLabel(UserRule(users[i].status, users[i].fails))
    /\ HotDone => \A i \in 1..Len(HotUserLines) :
            HotUserLines[i][3] = HotLabel(UserRule(HotUserLines[i][5], HotUserLines[i][4]))
    /\ RiskDone => \A i \in 1..Len(report) :
            report[i][3] = UserRule(report[i][5], report[i][4])

\* alice (active, 3 failures) is HIGH and bob (disabled, 1 failure) is CRITICAL
C1_Witness ==
    /\ HotDone
    /\ \E i, j \in 1..Len(HotUserLines) :
        /\ HotUserLines[i] = <<"alice", ": ", "HIGH RISK", 3, "active">>
        /\ HotUserLines[j] = <<"bob", ": ", "CRITICAL", 1, "disabled">>

(***************************************************************************)
(* Where a run of analysis_engine.main() stands.                           *)
(***************************************************************************)
EngineStages ==
    <<"load_linux", "load_windows", "load_anomalies", "parse_auth", "classify_linux",
      "classify_windows", "classify_auth", "include_anomalies", "summarize",
      "write_final_report", "write_alerts_json", "done">>

StageIndex(stage) == CHOOSE i \in 1..Len(EngineStages) : EngineStages[i] = stage

\* the call named `stage` has returned
EngineAfter(stage) ==
    prog = "engine" /\ pc # "aborted" /\ StageIndex(pc) > StageIndex(stage)

OrchDone == prog = "orchestrator" /\ pc = "done"
FinalDone == prog = "final" /\ pc = "done"

Count(seq, Test(_)) == Cardinality({i \in 1..Len(seq) : Test(seq[i])})

\* the names are in ascending code-point order
Ascending(names) ==
    \A i, j \in 1..Len(names) : i < j => (names[i] = names[j] \/ StrLess(names[i], names[j]))

(***************************************************************************)
(* C2                                                                      *)
(***************************************************************************)
IsProcessAlert(a) == a.severity = "CRITICAL" /\ a.message.text = "(linux) Risk process detected: {p}"
IsProcessIncident(inc) == inc[1] = "CRITICAL" /\ inc[2] = ": Riskprocess upptackt - {p}"

EngineProcessNames == MapSeq(LAMBDA a : a.message.entity, SelectSeq(alerts, IsProcessAlert))
OrchProcessNames == MapSeq(LAMBDA inc : inc[3], SelectSeq(incidents, IsProcessIncident))

\* inventory: the names handed to the rule; names: the names it alerted on
ProcessRuleHolds(inventory, names) ==
    /\ \A P \in RISK_PROCESSES :
        (\E n \in Range(inventory) : Lower(n) = P)
            => Count(names, LAMBDA n : Lower(n) = P) = 1
    /\ Ascending(names)

\* C2: every blocklisted process name that occurs in the inventory, in any
\* letter case and any number of times, gets exactly one CRITICAL alert, and
\* the CRITICAL process alerts are in ascending order of name.
C2_ProcessRule ==
    /\ EngineAfter("classify_linux") => ProcessRuleHolds(linux_procs, EngineProcessNames)
    /\ OrchDone => ProcessRuleHolds(orch_linux_procs(linux_file), OrchProcessNames)

(***************************************************************************)
(* C3                                                                      *)
(***************************************************************************)
AuthLines == IF auth_file.kind = "missing" THEN <<>> ELSE auth_file.lines

\* the line contains "failed" in some letter case
LineHasFailed(line) == \E j \in 1..Len(line) : Lower(line[j]) = "failed"

\* the number of failed lines whose first dotted quad is ip
FailureCount(lines, ip) ==
    Cardinality({i \in 1..Len(lines) : LineHasFailed(lines[i]) /\ SearchIp(lines[i]) = ip})

IsIpAlert(a) ==
    a.message.text \in {"(auth) Brute-force indicator from IP {ip} ({count} fails)",
                        "(auth) Suspicious failed logins from IP {ip} ({count} fails)"}
IsIpIncident(inc) ==
    inc[2] \in {": Brute-force-indikator fran IP {ip} ({count} fails)",
                ": Misstankta felaktiga inloggningar fran {ip} ({count} fails)"}

\* the per-IP alerts as <<severity, ip, count>>
EngineIpAlerts ==
    MapSeq(LAMBDA a : <<a.severity, a.message.entity, a.message.count>>, SelectSeq(alerts, IsIpAlert))
OrchIpAlerts ==
    MapSeq(LAMBDA inc : <<classify_severity(inc), inc[3], inc[4][1]>>, SelectSeq(incidents, IsIpIncident))

LogIps == {"1.2.3.4", "5.6.7.8", "9.9.9.9", "999.999.999.999", "x.x.x.x"}

IpRuleHolds(ipalerts) ==
    \A ip \in LogIps \cup {ipalerts[i][2] : i \in 1..Len(ipalerts)} :
        LET c == FailureCount(AuthLines, ip)
            mine == SelectSeq(ipalerts, LAMBDA t : t[2] = ip)
        IN IF c = 0 THEN mine = <<>>
           ELSE mine = <<<<IF c >= 5 THEN "CRITICAL" ELSE "MEDIUM", ip, c>>>>

\* C3: an IP's failure count is the number of log lines that contain "failed"
\* (any letter case) and whose first dotted quad is that IP; the IP gets one
\* CRITICAL alert when the count is at least 5, one MEDIUM alert when it is
\* 1 to 4, and no alert when it is 0.
C3_IpRule ==
    /\ EngineAfter("classify_auth") => IpRuleHolds(EngineIpAlerts)
    /\ OrchDone => IpRuleHolds(OrchIpAlerts)

\* five failed lines of one IP have given one CRITICAL alert
C3_Witness ==
    /\ EngineAfter("classify_auth")
    /\ EngineIpAlerts = <<<<"CRITICAL", "1.2.3.4", 5>>>>

(***************************************************************************)
(* C4                                                                      *)
(***************************************************************************)
RECURSIVE SumSeq(_)
SumSeq(ns) == IF ns = <<>> THEN 0 ELSE Head(ns) + SumSeq(Tail(ns))

\* the tallies written under the report's UNKNOWN USERS header
HotReportedTallies ==
    MapSeq(LAMBDA line : line[3],
           SectionAfter(report, "=== UNKNOWN USERS (in events.json but not in users.csv) ==="))

\* the failed_login events of the input whose user is no key of the table
UnknownFailedLogins ==
    Count(events_file.events,
          LAMBDA e : e.event = "failed_login" /\ e.user \notin Keys(users))

\* C4: after the per-user rule has processed all events, the reported
\* unknown-user tallies sum to the number of failed_login events whose user is
\* absent from the account table.
C4_UnknownUsersCounted ==
    /\ HotDone => SumSeq(HotReportedTallies) = UnknownFailedLogins
    /\ RiskDone => UnknownFailedLogins = 0

(***************************************************************************)
(* C5                                                                      *)
(***************************************************************************)
Written(out) == out # Unwritten

HasDiagnostic(sevs, file) ==
    \E i \in 1..Len(alerts) : alerts[i].severity \in sevs /\ alerts[i].message.entity = file

\* C5: whatever sources are missing, malformed or schema-violating, the run
\* does not abort, every faulty source has its diagnostic alert (ERROR for a
\* malformed or schema-violating one), and the finished run has written both
\* output artifacts.
C5_GracefulDegradation ==
    /\ prog \in {"engine", "hot"} => pc \notin {"aborted", "failed"}
    /\ EngineAfter("load_linux") =>
        /\ linux_file.kind = "missing" => HasDiagnostic({"WARNING", "ERROR"}, "linux_output.json")
        /\ linux_file.kind \in {"invalid", "list", "nokey"} => HasDiagnostic({"ERROR"}, "linux_output.json")
    /\ EngineAfter("load_windows") =>
        /\ win_file.kind = "missing" => HasDiagnostic({"WARNING", "ERROR"}, "windows_output.csv")
        /\ win_file.kind = "unreadable" => HasDiagnostic({"ERROR"}, "windows_output.csv")
    /\ (prog = "engine" /\ pc = "done") => Written(report) /\ Written(payload)
    /\ HotDone => Written(report)

(***************************************************************************)
(* C6                                                                      *)
(***************************************************************************)
AuthTexts ==
    {"(auth) auth.log missing (optional): {path}",
     "(auth) No failed-login IP indicators found (or auth.log missing).",
     "(auth) Brute-force indicator from IP {ip} ({count} fails)",
     "(auth) Suspicious failed logins from IP {ip} ({count} fails)"}

IsAuthInfo(a) == a.severity = "INFO" /\ a.message.text \in AuthTexts

EngineEnded == prog = "engine" /\ pc \in {"done", "aborted"}

\* C6: with the authentication log missing the run completes and writes its
\* outputs, and the final alert list holds no CRITICAL or MEDIUM IP alert and
\* exactly one INFO alert of the authentication source.
C6_MissingAuthLog ==
    (EngineEnded /\ auth_file.kind = "missing") =>
        /\ pc = "done" /\ Written(report) /\ Written(payload)
        /\ EngineIpAlerts = <<>>
        /\ Count(alerts, IsAuthInfo) = 1

(***************************************************************************)
(* C7                                                                      *)
(***************************************************************************)
\* the section of an alert of analysis_engine: 1 process, 2 service, 3 IP,
\* 6 anomaly passthrough, 7 diagnostics
EngineSection(a) ==
    CASE a.message.text \in {"(linux) Risk process detected: {p}",
                             "(linux) OK: No known Linux risk processes detected."} -> 1
      [] a.message.text \in {"(windows) Risky service detected: {Name} (Status={Status})",
                             "(windows) OK: No risky Windows services detected (Telnet/RemoteRegistry/Spooler)."} -> 2
      [] a.message.text \in AuthTexts \ {"(auth) auth.log missing (optional): {path}"} -> 3
      [] a.message.text = "(anomalies) {a}" -> 6
      [] OTHER -> 7

\* the section of an incident of incident_orchestrator
OrchSection(inc) ==
    CASE IsProcessIncident(inc) -> 1
      [] inc[2] = ": Riskabel Windows-tjanst upptackt - {s}" -> 2
      [] inc[1] = "INFO (anomalies.log)" -> 6
      [] OTHER -> 3

LinePos(rep, header) == CHOOSE i \in 1..Len(rep) : rep[i][1] = header

\* C7: the final alert list is grouped in the order process, service, IP, user,
\* unknown-user, anomaly passthrough, diagnostics: no alert of a later section
\* precedes an alert of an earlier one.
C7_SectionOrder ==
    /\ (prog = "engine" /\ pc = "done") =>
        \A i, j \in 1..Len(alerts) : i < j => EngineSection(alerts[i]) <= EngineSection(alerts[j])
    /\ OrchDone =>
        \A i, j \in 1..Len(incidents) : i < j => OrchSection(incidents[i]) <= OrchSection(incidents[j])
    /\ HotDone =>
        LinePos(report, "=== IP RISK REPORT ===") < LinePos(report, "=== USER RISK REPORT ===")

(***************************************************************************)
(* C8                                                                      *)
(***************************************************************************)
EngineAlertLines == SectionAfter(report, "=== ALERTS ===")
OrchAlertLines ==
    SelectSeq(SectionAfter(report, "=== INCIDENT SUMMARY ==="),
              LAMBDA line : line[1] # "No incidents detected.")

\* the severity a line of incident_report.txt shows: its leading word
ShownSeverity(line) == IF line[1] = "INFO (anomalies.log)" THEN "INFO" ELSE line[1]

\* C8: once both outputs are written, the payload's alerts and the report's
\* alert lines are equally many and the i-th of each carry the same severity
\* and the same message.
C8_OutputsAgree ==
    /\ (prog = "engine" /\ Written(report) /\ Written(payload)) =>
        /\ Len(EngineAlertLines) = Len(payload)
        /\ \A i \in 1..Len(payload) :
            /\ EngineAlertLines[i][1] = payload[i].severity
            /\ EngineAlertLines[i][3] = payload[i].message
    /\ OrchDone =>
        /\ Len(OrchAlertLines) = Len(payload)
        /\ \A i \in 1..Len(payload) :
            /\ ShownSeverity(OrchAlertLines[i]) = payload[i].severity
            /\ OrchAlertLines[i] = payload[i].message

\* a finished run whose two outputs list alerts of three severities
C8_Witness ==
    /\ prog = "engine" /\ pc = "done"
    /\ Len(payload) >= 4
    /\ {"ERROR", "HIGH", "INFO"} \subseteq {payload[i].severity : i \in 1..Len(payload)}

(***************************************************************************)
(* C9                                                                      *)
(***************************************************************************)
KnownSeverities == {"CRITICAL", "HIGH", "MEDIUM", "WARNING", "LOW", "INFO", "ERROR"}

SummaryLines == SectionAfter(report, "=== SUMMARY ===")

\* C9: the report's summary block has, for each of the seven known severities,
\* one count line whose value is the number of alerts of that severity, so
\* the counts sum to the length of the alert list.
C9_ZeroFilledSummary ==
    (prog = "engine" /\ Written(report)) =>
        /\ \A sev \in KnownSeverities :
            \E i \in 1..Len(SummaryLines) :
                /\ SummaryLines[i][1] = sev
                /\ SummaryLines[i][3] = CountSeverity(alerts, sev)
                /\ \A j \in 1..Len(SummaryLines) : SummaryLines[j][1] = sev => j = i
        /\ SumSeq(MapSeq(LAMBDA line : line[3], SummaryLines)) = Len(alerts)

(***************************************************************************)
(* C10                                                                     *)
(***************************************************************************)
IsServiceAlert(a) == a.severity = "HIGH" /\ a.message.text = "(windows) Risky service detected: {Name} (Status={Status})"
IsServiceLine(line) == line[1] = "HIGH" /\ line[2] = ": Riskabel Windows-tjanst - {name} (Status={status})"

EngineServiceNames == MapSeq(LAMBDA a : a.message.entity, SelectSeq(alerts, IsServiceAlert))
FinalServiceNames == MapSeq(LAMBDA line : line[3], SelectSeq(report, IsServiceLine))

\* inventory: the service names handed to the rule; names: the names of its
\* HIGH alerts
ServiceRuleHolds(inventory, names) ==
    /\ \A i \in 1..Len(names) : names[i] \in RISK_SERVICES
    /\ \A S \in RISK_SERVICES :
        Count(names, LAMBDA n : n = S) = IF S \in Range(inventory) THEN 1 ELSE 0
    /\ Ascending(names)

\* C10: no HIGH alert is emitted for a service whose exact name is not
\* blocklisted, each blocklisted name present gets exactly one HIGH alert
\* however many rows carry it, and the HIGH alerts are in ascending order of
\* service name.
C10_ServiceRule ==
    /\ EngineAfter("classify_windows") =>
        ServiceRuleHolds(MapSeq(LAMBDA r : r.Name, windows_svcs), EngineServiceNames)
    /\ FinalDone =>
        ServiceRuleHolds(MapSeq(LAMBDA r : r.name, final_found_services(win_file)), FinalServiceNames)

(***************************************************************************)
(* C11                                                                     *)
(***************************************************************************)
\* what a rule of analysis_engine (section 1 process, 2 service) has appended
EngineRuleAlerts(k) == SelectSeq(alerts, LAMBDA a : EngineSection(a) = k)
\* what a stage of incident_orchestrator (1 process, 2 service) has appended
OrchRuleIncidents(k) == SelectSeq(incidents, LAMBDA inc : OrchSection(inc) = k)

EngineProcessHits == SelectSeq(linux_procs, LAMBDA p : Lower(p) \in RISK_PROCESSES)
EngineServiceHits == SelectSeq(windows_svcs, LAMBDA r : r.Name \in RISK_SERVICES)

\* out: what the rule appended; Sev(x): the severity of one of them
ClearOnly(out, Sev(_)) == Len(out) = 1 /\ Sev(out[1]) = "INFO"

\* C11: when the process rule (the service rule) finds no blocklisted entry in
\* its input, it has appended exactly one INFO alert and no CRITICAL (HIGH)
\* alert; it never finishes having appended nothing.
C11_NoSilentNoFinding ==
    /\ (EngineAfter("classify_linux") /\ EngineProcessHits = <<>>) =>
        ClearOnly(EngineRuleAlerts(1), LAMBDA a : a.severity)
    /\ (EngineAfter("classify_windows") /\ EngineServiceHits = <<>>) =>
        ClearOnly(EngineRuleAlerts(2), LAMBDA a : a.severity)
    /\ (OrchDone /\ orch_linux_hits(orch_linux_procs(linux_file)) = <<>>) =>
        ClearOnly(OrchRuleIncidents(1), LAMBDA inc : inc[1])
    /\ (OrchDone /\ orch_win_hits(read_csv_services(win_file)) = <<>>) =>
        ClearOnly(OrchRuleIncidents(2), LAMBDA inc : inc[1])

(***************************************************************************)
(* C12                                                                     *)
(***************************************************************************)
\* the usernames of the account table: the non-blank names of users.csv
TableUsers == {Strip(users_file.rows[i].username) : i \in 1..Len(users_file.rows)} \ {""}

\* lines: the user lines of a report; low: the label of the lowest tier
UserLinesHold(lines, low) ==
    /\ \A u \in TableUsers \cup Keys(users) : Count(lines, LAMBDA line : line[1] = u) = 1
    /\ Len(lines) = Cardinality(TableUsers)
    /\ \A i, j \in 1..Len(lines) : i < j => StrLess(lines[i][1], lines[j][1])
    /\ \A i \in 1..Len(lines) : lines[i][4] = 0 => lines[i][3] = low

\* C12: every user of the account table has exactly one line in the report,
\* a user with zero failures too (classified LOW), and the user lines are in
\* ascending order of username.
C12_OneLinePerUser ==
    /\ HotDone => UserLinesHold(HotUserLines, HotLabel("LOW"))
    /\ RiskDone => UserLinesHold(report, "LOW")

\* bob is read before alice and alice has no failure: alice's LOW line comes
\* first
C12_Witness ==
    /\ RiskDone
    /\ Len(users) = 2 /\ users[1].key = "bob"
    /\ report = <<<<"alice", ": ", "LOW", 0, "active">>, <<"bob", ": ", "CRITICAL", 1, "disabled">>>>

(***************************************************************************)
(* C13                                                                     *)
(***************************************************************************)
\* the IP lines of hot_detection_engine's report as <<label, ip, count>>
HotIpLines ==
    MapSeq(LAMBDA line : <<line[3], line[1], line[4]>>,
           SelectSeq(SectionAfter(report, "=== IP RISK REPORT ==="),
                     LAMBDA line : line[1] # "No failed-login IPs found in auth.log"))

\* ipalerts: <<severity, ip, count>> in the order emitted
IpOrderHolds(ipalerts) ==
    \A i, j \in 1..Len(ipalerts) : i < j =>
        \/ ipalerts[i][3] > ipalerts[j][3]
        \/ ipalerts[i][3] = ipalerts[j][3] /\ StrLess(ipalerts[i][2], ipalerts[j][2])

\* C13: the IP alerts are in descending order of failure count, and IPs of
\* equal count are in ascending order of IP string, whatever the order in
\* which the IPs first appear in the log.
C13_IpAlertOrder ==
    /\ EngineAfter("classify_auth") => IpOrderHolds(EngineIpAlerts)
    /\ OrchDone => IpOrderHolds(OrchIpAlerts)
    /\ HotDone => IpOrderHolds(HotIpLines)

(***************************************************************************)
(* C14                                                                     *)
(***************************************************************************)
\* the account table is loaded and the per-user rule has not run yet
UsersLoaded ==
    \/ prog = "hot" /\ pc \in {"load_events", "apply_event_fails"}
    \/ prog = "risk" /\ pc \in {"load_events", "count_failed_logins"}

\* the per-user rule has processed all events
UsersCounted ==
    \/ prog = "hot" /\ pc \in {"parse_auth_log_ips", "write_report", "done"}
    \/ prog = "risk" /\ pc \in {"write_report", "done"}

\* the account table as the loader built it
LoadedTable == IF prog = "hot" THEN hot_load_users(users_file) ELSE risk_load_users(users_file)

\* the failed_login events of the input that name user u
FailedLoginsOf(u) ==
    Count(events_file.events, LAMBDA e : e.event = "failed_login" /\ e.user = u)

\* C14: every account starts with fail_count 0; after the per-user rule has
\* processed the events, each user's fail_count is the number of failed_login
\* events naming that user (events of another type, naming another user or
\* an unknown user change nothing), and the rule has changed no status and
\* added or removed no username.
C14_FailCountAccounting ==
    /\ UsersLoaded => \A i \in 1..Len(users) : users[i].fails = 0
    /\ UsersCounted =>
        /\ \A i \in 1..Len(users) : users[i].fails = FailedLoginsOf(users[i].key)
        /\ Len(users) = Len(LoadedTable)
        /\ \A i \in 1..Len(users) :
            /\ users[i].key = LoadedTable[i].key
            /\ users[i].status = LoadedTable[i].status

====
